---- MODULE Spec2Model ----
(***************************************************************************)
(* Kosmorrolib: ephemerides, moon phase and event assembly.                *)
(*                                                                         *)
(* The library is a set of pure entry points over an external ephemeris    *)
(* provider (Skyfield).  The state of the model is the provider's answers  *)
(* for the call at hand (provider), the arguments of the call (args), the  *)
(* entry point that was called (op, "none" before the call), what the call *)
(* returned or raised (outcome) and the finder and detector runs it made,  *)
(* in order (ran).                                                         *)
(***************************************************************************)
EXTENDS Integers, Sequences, FiniteSets, TLC

VARIABLES provider, args, op, outcome, ran

vars == <<provider, args, op, outcome, ran>>

(***************************************************************************)
(* Python values.  None is the empty tuple, a present optional value x is  *)
(* the one-element tuple <<x>>.  A raised exception is a record whose      *)
(* field raised names the exception class.                                 *)
(***************************************************************************)
None == <<>>

Some(x) == <<x>>

IsNone(v) == v = <<>>

Get(v) == v[1]

Range(s) == {s[i] : i \in DOMAIN s}

NoOutcome == [raised |-> "nothing", pending |-> TRUE]

(***************************************************************************)
(* The civil calendar of datetime.date and datetime.datetime.  A datetime  *)
(* is [year, month, day, hour, minute, second, microsecond, tzinfo] with   *)
(* tzinfo None (naive) or Some(offset in hours).  Ordinals are those of    *)
(* date.toordinal(): day 1 is 1 January of year 1.                         *)
(***************************************************************************)
IsLeap(y) == (y % 4 = 0 /\ y % 100 # 0) \/ y % 400 = 0

DaysInYear(y) == IF IsLeap(y) THEN 366 ELSE 365

DaysInMonth(y, m) ==
    IF m = 2 THEN (IF IsLeap(y) THEN 29 ELSE 28)
    ELSE IF m \in {4, 6, 9, 11} THEN 30 ELSE 31

DaysBeforeYear(y) ==
    LET p == y - 1 IN p * 365 + (p \div 4) - (p \div 100) + (p \div 400)

RECURSIVE DaysBeforeMonth(_, _)
DaysBeforeMonth(y, m) ==
    IF m <= 1 THEN 0 ELSE DaysBeforeMonth(y, m - 1) + DaysInMonth(y, m - 1)

\* date.toordinal()
ToOrdinal(d) == DaysBeforeYear(d.year) + DaysBeforeMonth(d.year, d.month) + d.day

RECURSIVE OrdToMonth(_, _, _)
OrdToMonth(y, m, n) ==
    IF n > DaysInMonth(y, m) THEN OrdToMonth(y, m + 1, n - DaysInMonth(y, m))
    ELSE [year |-> y, month |-> m, day |-> n]

RECURSIVE OrdToYear(_, _)
OrdToYear(y, n) ==
    IF n > DaysBeforeYear(y + 1) THEN OrdToYear(y + 1, n)
    ELSE IF n <= DaysBeforeYear(y) THEN OrdToYear(y - 1, n)
    ELSE OrdToMonth(y, 1, n - DaysBeforeYear(y))

\* date.fromordinal(n)
FromOrdinal(n) == OrdToYear(((n * 400) \div 146097) + 1, n)

\* date(year, month, day): ValueError when the day is not a day of the month.
MakeDate(y, m, d) ==
    IF m \in 1..12 /\ d \in 1..DaysInMonth(y, m)
    THEN [raised |-> "nothing", year |-> y, month |-> m, day |-> d]
    ELSE [raised |-> "ValueError"]

DateOf(dt) == [year |-> dt.year, month |-> dt.month, day |-> dt.day]

\* date + timedelta(days=n): through the ordinal.
DatePlusDays(d, n) == FromOrdinal(ToOrdinal(d) + n)

\* The second of the day of a datetime's wall clock.
SecondOfDay(dt) == dt.hour * 3600 + dt.minute * 60 + dt.second

\* The datetime of second s of the day with ordinal ord.
FromClock(ord, s, us, tz) ==
    LET d == FromOrdinal(ord)
    IN  [year |-> d.year, month |-> d.month, day |-> d.day,
         hour |-> s \div 3600, minute |-> (s % 3600) \div 60, second |-> s % 60,
         microsecond |-> us, tzinfo |-> tz]

\* datetime + timedelta(seconds=n): the days carried go through the ordinal;
\* microsecond and tzinfo are kept.
PlusSeconds(dt, n) ==
    LET total == SecondOfDay(dt) + n
    IN  FromClock(ToOrdinal(dt) + (total \div 86400), total % 86400,
                  dt.microsecond, dt.tzinfo)

DateTime(y, mo, d, h, mi, s, us, tz) ==
    [year |-> y, month |-> mo, day |-> d, hour |-> h, minute |-> mi,
     second |-> s, microsecond |-> us, tzinfo |-> tz]

(***************************************************************************)
(* kosmorrolib/dateutil.py                                                 *)
(***************************************************************************)
\* A slip of the conversion: the offset is replaced and the wall clock kept.
translate_to_timezone_replace(date, to_tz) == [date EXCEPT !.tzinfo = Some(to_tz)]

\* translate_to_timezone(date, to_tz): a naive datetime is read as UTC; the
\* wall clock moves from the source offset to UTC and then to to_tz.
translate_to_timezone(date, to_tz) ==
    LET source_tz == IF IsNone(date.tzinfo) THEN 0 ELSE Get(date.tzinfo)
        utc == PlusSeconds(date, 0 - 3600 * source_tz)
    IN  [PlusSeconds(utc, 3600 * to_tz) EXCEPT !.tzinfo = Some(to_tz)]

\* A slip of normalize_datetime: a tie (30 seconds) rounds down.
normalize_datetime_tie_down(date) ==
    LET new_date == DateTime(date.year, date.month, date.day,
                             date.hour, date.minute, 0, 0, None)
    IN  IF date.second > 30 THEN PlusSeconds(new_date, 60) ELSE new_date

\* normalize_datetime(date): the naive datetime of the same minute, one
\* minute later when the seconds are 30 or more.
normalize_datetime(date) ==
    LET new_date == DateTime(date.year, date.month, date.day,
                             date.hour, date.minute, 0, 0, None)
    IN  IF date.second >= 30 THEN PlusSeconds(new_date, 60) ELSE new_date

(***************************************************************************)
(* SpecNorm: normalize_datetime applied to datetimes around the minute,    *)
(* hour, day, month and year boundaries.                                   *)
(***************************************************************************)
NormYears == {2020, 2021}

NormDays == {1, 9, 28, 29, 30, 31}

NormHours == {0, 2, 23}

NormMinutes == {0, 30, 59}

NormSeconds == {0, 29, 30, 59}

NormMicros == {0, 999999}

NormInputs ==
    {dt \in {DateTime(y, mo, d, h, mi, s, us, None) :
                y \in NormYears, mo \in 1..12, d \in NormDays,
                h \in NormHours, mi \in NormMinutes, s \in NormSeconds,
                us \in NormMicros} :
        dt.day <= DaysInMonth(dt.year, dt.month)}

NoProvider == [kind |-> "none"]

InitNorm ==
    /\ provider = NoProvider
    /\ args \in {[date |-> d] : d \in NormInputs}
    /\ op = "none"
    /\ outcome = NoOutcome
    /\ ran = <<>>

NormalizeDatetime ==
    /\ op = "none"
    /\ op' = "normalize_datetime"
    /\ outcome' = normalize_datetime(args.date)
    /\ UNCHANGED <<provider, args, ran>>

NextNorm == NormalizeDatetime

SpecNorm == InitNorm /\ [][NextNorm]_vars

\* The wall clock as <<ordinal of the day, second of the day>>.
WallClock(d) == <<ToOrdinal(d), SecondOfDay(d)>>

\* The minute the input rounds to, written out without timedelta: the
\* input's distance from the start of its minute is compared with half a
\* minute, in microseconds.
RoundedWallClock(d) ==
    LET start == SecondOfDay(d) - d.second
        up == 2 * (d.second * 1000000 + d.microsecond) >= 60000000
    IN  IF ~up THEN <<ToOrdinal(d), start>>
        ELSE IF start + 60 = 86400 THEN <<ToOrdinal(d) + 1, 0>>
        ELSE <<ToOrdinal(d), start + 60>>

\* C7: normalize_datetime returns the input rounded to the nearest whole
\* minute, ties up, with zero seconds and microseconds, and carries into the
\* hour, day, month and year (23:59:59 on 31 December gives 00:00 on
\* 1 January of the next year).
C7_NormalizeRoundsToNearestMinute ==
    op = "normalize_datetime" =>
        /\ outcome.second = 0
        /\ outcome.microsecond = 0
        /\ outcome.day \in 1..DaysInMonth(outcome.year, outcome.month)
        /\ outcome.hour \in 0..23 /\ outcome.minute \in 0..59
        /\ WallClock(outcome) = RoundedWallClock(args.date)
        /\ (args.date.second = 29 =>
                /\ outcome.minute = args.date.minute
                /\ outcome.hour = args.date.hour
                /\ DateOf(outcome) = DateOf(args.date))
        /\ (args.date.second = 30 /\ args.date.minute < 59 =>
                /\ outcome.minute = args.date.minute + 1
                /\ outcome.hour = args.date.hour
                /\ DateOf(outcome) = DateOf(args.date))
        /\ ((args.date.month = 12 /\ args.date.day = 31 /\ args.date.hour = 23
             /\ args.date.minute = 59 /\ args.date.second >= 30) =>
                /\ DateOf(outcome) =
                       [year |-> args.date.year + 1, month |-> 1, day |-> 1]
                /\ outcome.hour = 0 /\ outcome.minute = 0)

\* A year carry has happened: 23:59:59 on 31 December was normalized.
C7_Witness ==
    /\ op = "normalize_datetime"
    /\ args.date.month = 12 /\ args.date.day = 31 /\ args.date.hour = 23
    /\ args.date.minute = 59 /\ args.date.second = 59
    /\ outcome.year = args.date.year + 1 /\ outcome.month = 1 /\ outcome.day = 1

(***************************************************************************)
(* kosmorrolib/model.py: the catalogue                                     *)
(***************************************************************************)
Aster(identifier, type) == [identifier |-> identifier, type |-> type]

EARTH == Aster("EARTH", "PLANET")

ASTERS ==
    << Aster("SUN", "STAR"), Aster("MOON", "SATELLITE"),
       Aster("MERCURY", "PLANET"), Aster("VENUS", "PLANET"),
       Aster("MARS", "PLANET"), Aster("JUPITER", "PLANET"),
       Aster("SATURN", "PLANET"), Aster("URANUS", "PLANET"),
       Aster("NEPTUNE", "PLANET"), Aster("PLUTO", "PLANET") >>

(***************************************************************************)
(* Skyfield Time values are kept as their UTC datetime (utc_datetime()).   *)
(* get_timescale().utc(year, month, day, hour, minute, second) accepts an  *)
(* hour or a day outside its usual range and carries it.                   *)
(***************************************************************************)
utc(year, month, day, hour, minute, second) ==
    LET first == DateTime(year, month, 1, 0, 0, 0, 0, Some(0))
    IN  PlusSeconds(PlusSeconds(first, (day - 1) * 86400),
                    hour * 3600 + minute * 60 + second)

\* a is strictly earlier than b (two datetimes of the same offset).
Earlier(a, b) ==
    \/ ToOrdinal(a) < ToOrdinal(b)
    \/ /\ ToOrdinal(a) = ToOrdinal(b)
       /\ \/ SecondOfDay(a) < SecondOfDay(b)
          \/ SecondOfDay(a) = SecondOfDay(b) /\ a.microsecond < b.microsecond

\* Whether the provider covers the call; when it does not, every query
\* raises EphemerisRangeError with the bounds of its data.
Covered == provider.kind # "coverage"

(***************************************************************************)
(* kosmorrolib/ephemerides.py: get_ephemerides                             *)
(***************************************************************************)
\* find_discrete(start_time, end_time, is_risen(aster)): the horizon
\* crossings of the aster in the window, as the provider gives them (offsets
\* from the start of the window), each with the value after it.
find_discrete_risen(start_time, i) ==
    [k \in DOMAIN provider.horizon[i] |->
        [time |-> [PlusSeconds(start_time, provider.horizon[i][k].offset)
                     EXCEPT !.microsecond = provider.horizon[i][k].us],
         value |-> provider.horizon[i][k].risen]]

\* find_maxima(start_time, end_time, get_angle(aster)): the altitude maxima.
find_maxima_angle(start_time, i) ==
    [k \in DOMAIN provider.maxima[i] |->
        [PlusSeconds(start_time, provider.maxima[i][k].offset)
            EXCEPT !.microsecond = provider.maxima[i][k].us]]

\* A slip of the rise/set choice: with two crossings the indices are swapped.
rise_and_set_swapped(rise_times) ==
    IF Len(rise_times) = 2
    THEN [rise_time |-> Some(rise_times[IF rise_times[1].value THEN 2 ELSE 1].time),
          set_time |-> Some(rise_times[IF ~rise_times[2].value THEN 1 ELSE 2].time)]
    ELSE IF Len(rise_times) = 1
    THEN [rise_time |-> IF rise_times[1].value THEN None
                        ELSE Some(rise_times[1].time),
          set_time |-> IF ~rise_times[1].value THEN None
                       ELSE Some(rise_times[1].time)]
    ELSE [rise_time |-> None, set_time |-> None]

\* The rise and the set among the crossings found (a crossing's value is the
\* truth of "risen" after it).
rise_and_set(rise_times) ==
    IF Len(rise_times) = 2
    THEN [rise_time |-> Some(rise_times[IF rise_times[1].value THEN 1 ELSE 2].time),
          set_time |-> Some(rise_times[IF ~rise_times[2].value THEN 2 ELSE 1].time)]
    ELSE IF Len(rise_times) = 1
    THEN [rise_time |-> IF rise_times[1].value THEN Some(rise_times[1].time)
                        ELSE None,
          set_time |-> IF ~rise_times[1].value THEN Some(rise_times[1].time)
                       ELSE None]
    ELSE [rise_time |-> None, set_time |-> None]

\* Time to the local datetime reported: microseconds dropped, moved to the
\* timezone, rounded to the minute.
to_local_minute(time, timezone) ==
    IF IsNone(time) THEN None
    ELSE Some(normalize_datetime(
                  translate_to_timezone([Get(time) EXCEPT !.microsecond = 0],
                                        timezone)))

\* One turn of the loop over ASTERS.
aster_ephemerides(i, start_time, timezone) ==
    LET rise_times == find_discrete_risen(start_time, i)
        maxima == find_maxima_angle(start_time, i)
        culmination_time == IF Len(maxima) = 1 THEN Some(maxima[1]) ELSE None
        rs == rise_and_set(rise_times)
    IN  [rise_time |-> to_local_minute(rs.rise_time, timezone),
         culmination_time |-> to_local_minute(culmination_time, timezone),
         set_time |-> to_local_minute(rs.set_time, timezone),
         object |-> ASTERS[i]]

\* OutOfRangeDateError(min_date, max_date); building either date may itself
\* raise ValueError, which then escapes in its place.
OutOfRangeDateError(min_date, max_date) ==
    IF min_date.raised # "nothing" \/ max_date.raised # "nothing"
    THEN [raised |-> "ValueError"]
    ELSE [raised |-> "OutOfRangeDateError",
          min_date |-> DateOf(min_date), max_date |-> DateOf(max_date)]

Raisable(d) == [raised |-> "nothing", year |-> d.year, month |-> d.month, day |-> d.day]

\* The handler of EphemerisRangeError in get_ephemerides.
ephemerides_range_error(error, timezone) ==
    LET start == translate_to_timezone(error.start_time, timezone)
        end == translate_to_timezone(error.end_time, timezone)
    IN  OutOfRangeDateError(MakeDate(start.year, start.month, start.day + 1),
                            MakeDate(end.year, end.month, end.day - 1))

get_ephemerides(for_date, timezone) ==
    LET start_time == utc(for_date.year, for_date.month, for_date.day,
                          0 - timezone, 0, 0)
    IN  IF Covered
        THEN [raised |-> "nothing",
              value |-> [i \in DOMAIN ASTERS |->
                            aster_ephemerides(i, start_time, timezone)]]
        ELSE ephemerides_range_error(provider.error, timezone)

(***************************************************************************)
(* kosmorrolib/ephemerides.py: get_moon_phase                              *)
(***************************************************************************)
MoonPhaseNames ==
    << "NEW_MOON", "WAXING_CRESCENT", "FIRST_QUARTER", "WAXING_GIBBOUS",
       "FULL_MOON", "WANING_GIBBOUS", "LAST_QUARTER", "WANING_CRESCENT" >>

\* MoonPhaseType(value)
MoonPhaseType(value) == MoonPhaseNames[value + 1]

ExactPhases == {"NEW_MOON", "FIRST_QUARTER", "FULL_MOON", "LAST_QUARTER"}

\* Python's s[i]: i counts from 0, a negative i counts from the end.
PyIndex(s, i) == IF i >= 0 THEN s[i + 1] ELSE s[Len(s) + i + 1]

PyIndexValid(s, i) == i < Len(s) /\ i >= 0 - Len(s)

\* A slip of the loop: a first change found tomorrow or later is kept.
current_index_no_tomorrow(times, now, tomorrow) ==
    LET at_or_after == {k \in DOMAIN times : ~Earlier(times[k], now)}
        first == CHOOSE k \in at_or_after : \A k2 \in at_or_after : k <= k2
    IN  IF times = <<>> THEN 0
        ELSE IF at_or_after = {} THEN Len(times) - 1
        ELSE first - 1

\* The value of i after the loop "for i, time in enumerate(times)": the
\* first change at or after now, the change before it when that one is
\* tomorrow or later, the last change when none is at or after now (and 0
\* for an empty list).
current_index(times, now, tomorrow) ==
    LET at_or_after == {k \in DOMAIN times : ~Earlier(times[k], now)}
        first == CHOOSE k \in at_or_after : \A k2 \in at_or_after : k <= k2
    IN  IF times = <<>> THEN 0
        ELSE IF at_or_after = {} THEN Len(times) - 1
        ELSE IF ~Earlier(times[first], tomorrow) THEN first - 2
        ELSE first - 1

\* A slip of the second loop: it starts at the current change itself.
next_candidates_from_i(i, n) == {j \in i..(n - 1) : j >= 0}

\* The indices (from 0) the loop "for j in range(i + 1, len(times))" visits.
next_candidates(i, n) == {j \in (i + 1)..(n - 1) : j >= 0}

\* A slip of the test: every phase carries the time of its change.
current_phase_time_always(current_phase, time, timezone) ==
    Some(translate_to_timezone(time, timezone))

\* current_phase_time: the time of the change for the four exact phases,
\* None for the others.
current_phase_time(current_phase, time, timezone) ==
    IF current_phase \in ExactPhases
    THEN Some(translate_to_timezone(time, timezone))
    ELSE None

\* _get_skyfield_to_moon_phase(times, vals, now, timezone)
get_skyfield_to_moon_phase(times, vals, now, timezone) ==
    LET tomorrow == utc(now.year, now.month, now.day + 1, 0, 0, 0)
        i == current_index(times, now, tomorrow)
        exact == {j \in next_candidates(i, Len(times)) : vals[j + 1] \in {0, 2, 4, 6}}
        j == CHOOSE j1 \in exact : \A j2 \in exact : j1 <= j2
    IN  IF ~PyIndexValid(vals, i) THEN [raised |-> "IndexError"]
        ELSE [raised |-> "nothing",
              phase_type |-> MoonPhaseType(PyIndex(vals, i)),
              time |-> current_phase_time(MoonPhaseType(PyIndex(vals, i)),
                                          PyIndex(times, i), timezone),
              next_phase_date |->
                  IF exact = {} THEN None
                  ELSE Some(translate_to_timezone(times[j + 1], timezone))]

\* find_discrete(start_time, end_time, moon_phase_at): the bucket changes in
\* the window as the provider gives them (offsets in hours from its start).
find_discrete_moon(start_time) ==
    [k \in DOMAIN provider.moon |->
        PlusSeconds(start_time, provider.moon[k].hours * 3600)]

moon_values == [k \in DOMAIN provider.moon |-> provider.moon[k].value]

\* The handler of EphemerisRangeError in get_moon_phase.
moon_range_error(error, timezone) ==
    LET start == translate_to_timezone(error.start_time, timezone)
        end == translate_to_timezone(error.end_time, timezone)
    IN  OutOfRangeDateError(
            Raisable(DatePlusDays(DateOf(start), 12)),
            Raisable(DatePlusDays(DateOf(end), 0 - 12)))

get_moon_phase(for_date, timezone) ==
    LET today == utc(for_date.year, for_date.month, for_date.day, 0, 0, 0)
        start_time == utc(for_date.year, for_date.month, for_date.day - 10, 0, 0, 0)
    IN  IF Covered
        THEN get_skyfield_to_moon_phase(find_discrete_moon(start_time),
                                        moon_values, today, timezone)
        ELSE moon_range_error(provider.error, timezone)

(***************************************************************************)
(* SpecEph: get_ephemerides and get_moon_phase over what the provider can  *)
(* answer: horizon crossings and altitude maxima of the day, the bucket    *)
(* changes of the Moon in the 20-day window, or a coverage error.          *)
(***************************************************************************)
Timezones == {0 - 2, 0, 2}

Date(y, m, d) == [year |-> y, month |-> m, day |-> d]

EphDates == {Date(2021, 6, 9), Date(2021, 12, 31), Date(2020, 2, 29)}

\* Instants of the day, in seconds (and microseconds) from its start: the
\* first second, noon, 23:59:29.999999, 23:59:30 and the last second.
EphInstants ==
    { [offset |-> 0, us |-> 0], [offset |-> 43200, us |-> 0],
      [offset |-> 86369, us |-> 999999], [offset |-> 86370, us |-> 0],
      [offset |-> 86399, us |-> 0] }

MaxCrossings == 3

MaxMaxima == 2

Increasing(q) == \A k \in 1..(Len(q) - 1) : q[k].offset < q[k + 1].offset

\* What find_discrete can return for the boolean is_risen: increasing times,
\* the value after each crossing the negation of the value after the one
\* before it.
HorizonAnswers ==
    UNION { { [k \in 1..n |-> [offset |-> q[k].offset, us |-> q[k].us,
                               risen |-> IF k % 2 = 1 THEN b ELSE ~b]] :
                q \in {q1 \in [1..n -> EphInstants] : Increasing(q1)},
                b \in BOOLEAN }
            : n \in 0..MaxCrossings }

MaximaAnswers ==
    UNION { {q \in [1..n -> {x \in EphInstants : x.offset \in {43200, 86370}}] :
                Increasing(q)}
            : n \in 0..MaxMaxima }

\* One aster has crossings and maxima in the window; the others stay on
\* their side of the horizon all day and culminate outside it.
HorizonProviders ==
    { [kind |-> "horizon",
       horizon |-> [i \in DOMAIN ASTERS |-> IF i = a THEN h ELSE <<>>],
       maxima |-> [i \in DOMAIN ASTERS |-> IF i = a THEN m ELSE <<>>]] :
        a \in DOMAIN ASTERS, h \in HorizonAnswers, m \in MaximaAnswers }

MoonWindowHours == 2 * 10 * 24

MoonGapHours == {80, 96}

MoonFirstHours == {0, 24, 50}

\* The bucket changes from hour t of the window on: the bucket grows by one
\* (modulo 8) at each change, a bucket lasts between 3.3 and 4 days.
RECURSIVE MoonChanges(_, _)
MoonChanges(t, v) ==
    IF t > MoonWindowHours THEN {<<>>}
    ELSE { <<[hours |-> t, value |-> v]>> \o rest :
              rest \in UNION {MoonChanges(t + g, (v + 1) % 8) : g \in MoonGapHours} }

MoonProviders ==
    { [kind |-> "moon", moon |-> q] :
        q \in UNION {MoonChanges(t, v) : t \in MoonFirstHours, v \in 0..7} }

\* find_discrete returns no bucket change at all.
EmptyMoonProviders == { [kind |-> "moon", moon |-> <<>>] }

CoverageStarts ==
    { DateTime(2020, 7, 28, 22, 30, 0, 0, Some(0)),
      DateTime(2020, 7, 30, 23, 0, 0, 0, Some(0)),
      DateTime(2020, 7, 31, 10, 0, 0, 0, Some(0)),
      DateTime(2020, 12, 31, 23, 0, 0, 0, Some(0)),
      DateTime(2020, 2, 28, 12, 0, 0, 0, Some(0)),
      DateTime(2021, 2, 28, 12, 0, 0, 0, Some(0)) }

CoverageEnds ==
    { DateTime(2021, 10, 8, 1, 0, 0, 0, Some(0)),
      DateTime(2021, 10, 2, 1, 0, 0, 0, Some(0)),
      DateTime(2021, 10, 1, 1, 0, 0, 0, Some(0)),
      DateTime(2022, 1, 1, 0, 30, 0, 0, Some(0)) }

\* The provider does not cover the window: EphemerisRangeError with the
\* bounds of its data.
CoverageProviders ==
    { [kind |-> "coverage", error |-> [start_time |-> b, end_time |-> e]] :
        b \in CoverageStarts, e \in CoverageEnds }

InitEph ==
    /\ provider \in HorizonProviders \cup MoonProviders \cup EmptyMoonProviders
                     \cup CoverageProviders
    /\ args \in {[for_date |-> d, timezone |-> tz] : d \in EphDates, tz \in Timezones}
    /\ op = "none"
    /\ outcome = NoOutcome
    /\ ran = <<>>

GetEphemerides ==
    /\ op = "none"
    /\ provider.kind \in {"horizon", "coverage"}
    /\ op' = "get_ephemerides"
    /\ outcome' = get_ephemerides(args.for_date, args.timezone)
    /\ UNCHANGED <<provider, args, ran>>

GetMoonPhase ==
    /\ op = "none"
    /\ provider.kind \in {"moon", "coverage"}
    /\ op' = "get_moon_phase"
    /\ outcome' = get_moon_phase(args.for_date, args.timezone)
    /\ UNCHANGED <<provider, args, ran>>

NextEph == GetEphemerides \/ GetMoonPhase

SpecEph == InitEph /\ [][NextEph]_vars

Returned == outcome.raised = "nothing" /\ "pending" \notin DOMAIN outcome

\* The start of the requested civil day in the requested timezone, in UTC.
LocalMidnight ==
    PlusSeconds(DateTime(args.for_date.year, args.for_date.month, args.for_date.day,
                         0, 0, 0, 0, Some(0)),
                0 - 3600 * args.timezone)

LocalDateOf(time) == DateOf(translate_to_timezone(time, args.timezone))

\* C5: on a coverage error with bounds [s, e], get_ephemerides raises
\* OutOfRangeDateError with the civil date of s plus one day and the civil
\* date of e minus one day, get_moon_phase with plus and minus 12 days, in
\* the caller's timezone, whatever the day of the month of s and e; no other
\* error escapes.
C5_CoverageErrorBounds ==
    (provider.kind = "coverage" /\ op # "none") =>
        LET pad == IF op = "get_ephemerides" THEN 1 ELSE 12
        IN  outcome =
                [raised |-> "OutOfRangeDateError",
                 min_date |-> DatePlusDays(LocalDateOf(provider.error.start_time), pad),
                 max_date |-> DatePlusDays(LocalDateOf(provider.error.end_time),
                                           0 - pad)]

Present(e) ==
    {t \in {e.rise_time, e.culmination_time, e.set_time} : ~IsNone(t)}

\* C6: every rise, culmination and set time get_ephemerides returns falls
\* on the requested civil day in the requested timezone, after the rounding
\* to the minute too.
C6_TimesOnRequestedDay ==
    (op = "get_ephemerides" /\ Returned) =>
        \A i \in DOMAIN ASTERS :
            \A t \in Present(outcome.value[i]) : DateOf(Get(t)) = args.for_date

\* C8: no crossing gives no rise and no set; one crossing is the rise when
\* the aster is above the horizon after it and the set otherwise, the other
\* being absent; of two crossings the rise is the one after which the aster
\* is above the horizon and the set the other one.
C8_RiseAndSetChoice ==
    (op = "get_ephemerides" /\ Returned) =>
        \A i \in DOMAIN ASTERS :
            LET xs == find_discrete_risen(LocalMidnight, i)
                e == outcome.value[i]
                Local(x) == to_local_minute(Some(x.time), args.timezone)
            IN  /\ Len(xs) = 0 => IsNone(e.rise_time) /\ IsNone(e.set_time)
                /\ (Len(xs) = 1 /\ xs[1].value) =>
                       e.rise_time = Local(xs[1]) /\ IsNone(e.set_time)
                /\ (Len(xs) = 1 /\ ~xs[1].value) =>
                       e.set_time = Local(xs[1]) /\ IsNone(e.rise_time)
                /\ Len(xs) = 2 =>
                       \E r \in 1..2, t \in 1..2 :
                           /\ r # t /\ xs[r].value /\ ~xs[t].value
                           /\ e.rise_time = Local(xs[r])
                           /\ e.set_time = Local(xs[t])

\* Two crossings were found, the set first and the rise second, and they
\* are reported in that way.
C8_Witness ==
    /\ op = "get_ephemerides" /\ Returned
    /\ \E i \in DOMAIN ASTERS :
          LET xs == find_discrete_risen(LocalMidnight, i)
          IN  /\ Len(xs) = 2 /\ ~xs[1].value /\ xs[2].value
              /\ ~IsNone(outcome.value[i].rise_time)
              /\ ~IsNone(outcome.value[i].set_time)
              /\ Earlier(Get(outcome.value[i].set_time), Get(outcome.value[i].rise_time))

MoonTimes ==
    find_discrete_moon(utc(args.for_date.year, args.for_date.month,
                           args.for_date.day - 10, 0, 0, 0))

\* The target instant of get_moon_phase: 00:00 UTC of the requested date.
MoonNow ==
    DateTime(args.for_date.year, args.for_date.month, args.for_date.day,
             0, 0, 0, 0, Some(0))

MoonTomorrow == PlusSeconds(MoonNow, 86400)

\* C9: the MoonPhase returned has a next_phase_date; it is the time of a
\* bucket change into one of the four exact phases, a change that comes
\* after the one reported as current, and it is strictly later than the
\* current phase's time.
C9_NextPhaseDate ==
    (op = "get_moon_phase" /\ Returned) =>
        /\ ~IsNone(outcome.next_phase_date)
        /\ \E i \in DOMAIN MoonTimes, j \in DOMAIN MoonTimes :
              /\ i < j
              /\ MoonPhaseType(moon_values[i]) = outcome.phase_type
              /\ ~IsNone(outcome.time) =>
                     outcome.time =
                         Some(translate_to_timezone(MoonTimes[i], args.timezone))
              /\ MoonPhaseType(moon_values[j]) \in ExactPhases
              /\ outcome.next_phase_date =
                     Some(translate_to_timezone(MoonTimes[j], args.timezone))
              /\ Earlier(MoonTimes[i], MoonTimes[j])
        /\ ~IsNone(outcome.time) =>
               Earlier(Get(outcome.time), Get(outcome.next_phase_date))

\* An exact phase is current, with its time, and the next exact phase has a
\* later date.
C9_Witness ==
    /\ op = "get_moon_phase" /\ Returned
    /\ outcome.phase_type = "FULL_MOON"
    /\ ~IsNone(outcome.time) /\ ~IsNone(outcome.next_phase_date)
    /\ Earlier(Get(outcome.time), Get(outcome.next_phase_date))

AtOrBeforeNow == {k \in DOMAIN MoonTimes : ~Earlier(MoonNow, MoonTimes[k])}

BeforeNow == {k \in DOMAIN MoonTimes : Earlier(MoonTimes[k], MoonNow)}

OnTargetDay ==
    {k \in DOMAIN MoonTimes :
        ~Earlier(MoonTimes[k], MoonNow) /\ Earlier(MoonTimes[k], MoonTomorrow)}

Least(S) == CHOOSE k \in S : \A k2 \in S : k <= k2

Greatest(S) == CHOOSE k \in S : \A k2 \in S : k >= k2

\* C10 as stated: the current phase is the bucket of the last bucket change
\* at or before the target instant, or of the first change found when the
\* target instant is earlier than all of them.
C10_LastChangeAtOrBeforeTarget ==
    (op = "get_moon_phase" /\ Returned) =>
        outcome.phase_type =
            MoonPhaseType(moon_values[IF AtOrBeforeNow # {}
                                      THEN Greatest(AtOrBeforeNow) ELSE 1])

\* C10 amended: the current phase is the bucket of the first bucket change
\* of the target UTC day (at or after 00:00 UTC of the date and before the
\* next midnight) when there is one, and otherwise the bucket of the last
\* bucket change before the target instant, which the window always holds.
C10_ChangeOfTargetDayOrLastBefore ==
    (op = "get_moon_phase" /\ Returned) =>
        IF OnTargetDay # {}
        THEN outcome.phase_type = MoonPhaseType(moon_values[Least(OnTargetDay)])
        ELSE /\ BeforeNow # {}
             /\ outcome.phase_type = MoonPhaseType(moon_values[Greatest(BeforeNow)])

\* A bucket change falls on the target day after 00:00 and its bucket is
\* reported, not the bucket of the change before the target instant.
C10_Witness ==
    /\ op = "get_moon_phase" /\ Returned
    /\ OnTargetDay # {} /\ BeforeNow # {}
    /\ Earlier(MoonNow, MoonTimes[Least(OnTargetDay)])
    /\ outcome.phase_type = MoonPhaseType(moon_values[Least(OnTargetDay)])
    /\ outcome.phase_type # MoonPhaseType(moon_values[Greatest(BeforeNow)])

\* The bucket change get_moon_phase takes as the current one.
SelectedChange ==
    IF OnTargetDay # {} THEN Least(OnTargetDay) ELSE Greatest(BeforeNow)

\* C11: the time of the MoonPhase returned by get_moon_phase is present
\* exactly when the phase is one of the four exact phases; it is then the
\* time of the bucket change taken as current, the same instant at the
\* requested UTC offset; for the four intermediate phases it is absent.
C11_TimeOnlyForExactPhases ==
    (op = "get_moon_phase" /\ Returned) =>
        /\ IsNone(outcome.time) <=> outcome.phase_type \notin ExactPhases
        /\ ~IsNone(outcome.time) =>
               /\ Get(outcome.time).tzinfo = Some(args.timezone)
               /\ Get(outcome.time) =
                      PlusSeconds([MoonTimes[SelectedChange]
                                      EXCEPT !.tzinfo = Some(args.timezone)],
                                  args.timezone * 3600)

\* A last quarter is current and carries the local time of its change, in a
\* timezone other than UTC.
C11_Witness ==
    /\ op = "get_moon_phase" /\ Returned
    /\ args.timezone # 0
    /\ outcome.phase_type = "LAST_QUARTER"
    /\ ~IsNone(outcome.time)
    /\ Get(outcome.time).tzinfo = Some(args.timezone)

\* An intermediate phase is current and carries no time.
C11_WitnessIntermediate ==
    /\ op = "get_moon_phase" /\ Returned
    /\ outcome.phase_type = "WAXING_GIBBOUS"
    /\ IsNone(outcome.time)

(***************************************************************************)
(* kosmorrolib/core.py                                                     *)
(***************************************************************************)
\* A Python list nested in a list is the record [list |-> items]; any other
\* item is a record without a list field.
IsList(item) == "list" \in DOMAIN item

\* A slip of the recursion: a nested list is opened one level only.
RECURSIVE flatten_list_one_level(_)
flatten_list_one_level(the_list) ==
    IF the_list = <<>> THEN <<>>
    ELSE (IF IsList(Head(the_list)) THEN Head(the_list).list
          ELSE <<Head(the_list)>>) \o flatten_list_one_level(Tail(the_list))

\* flatten_list(the_list)
RECURSIVE flatten_list(_)
flatten_list(the_list) ==
    IF the_list = <<>> THEN <<>>
    ELSE (IF IsList(Head(the_list)) THEN flatten_list(Head(the_list).list)
          ELSE <<Head(the_list)>>) \o flatten_list(Tail(the_list))

(***************************************************************************)
(* kosmorrolib/events.py: the detectors.  The provider's answers are the   *)
(* phenomena of provider.sky, each at a number of hours from the start of  *)
(* the window searched; a finder returns those of its kind in time order.  *)
(***************************************************************************)
RECURSIVE InTimeOrder(_)
InTimeOrder(S) ==
    IF S = {} THEN <<>>
    ELSE LET first == CHOOSE x \in S : \A y \in S : x.hours <= y.hours
         IN  <<first>> \o InTimeOrder(S \ {first})

\* The phenomena of a kind in the provider's sky.
Phenomena(kind) == {x \in provider.sky : x.kind = kind}

\* The hours from start_time to end_time (both on a whole hour).
HoursBetween(start_time, end_time) ==
    (ToOrdinal(end_time) - ToOrdinal(start_time)) * 24
        + (end_time.hour - start_time.hour)

\* What a finder returns for the window from start_time to end_time.
Found(kind, start_time, end_time) ==
    {x \in Phenomena(kind) :
        x.hours >= 0 /\ x.hours <= HoursBetween(start_time, end_time)}

TimeAt(start_time, hours) == PlusSeconds(start_time, hours * 3600)

\* A phenomenon of two bodies carries the longitudes lon = <<first,
\* second>> the observable reads just before it and from it on, in tenths
\* of a degree from 0 to 3599.
\* is_in_conjunction(time), from the longitudes lon = <<aster1_lon,
\* aster2_lon>>: the difference, taken modulo a full turn, is in the first
\* half turn.
is_in_conjunction(lon) == ((lon[1] - lon[2]) % 3600) \div 1800 = 0

\* get_angle(time), from the longitudes lon = <<lon1, lon2>> of the Sun and
\* of the body.
get_angle(lon) == lon[1] - lon[2]

\* is_oppositing(time)
is_oppositing(lon) == get_angle(lon) > 1800

\* The observable named f at the longitudes lon.
observe(f, lon) ==
    CASE f = "is_in_conjunction" -> is_in_conjunction(lon)
      [] f = "is_oppositing" -> is_oppositing(lon)

\* find_discrete(start_time, end_time, f) over the phenomena S of the
\* window: those across which f changes, in time order; the value
\* find_discrete returns with a time is f from there on.
find_discrete(S, f) ==
    InTimeOrder({x \in S : observe(f, x.before) # observe(f, x.after)})

\* int(x) for x in tenths of a degree: the whole degrees, towards zero.
int(tenths) == IF tenths >= 0 THEN tenths \div 10 ELSE 0 - ((0 - tenths) \div 10)

\* A slip of the constructor: end_time is not kept.
Event_drops_end_time(event_type, objects, start_time, end_time, details) ==
    [id |-> <<>>, event_type |-> event_type, objects |-> objects,
     start_time |-> start_time, end_time |-> None, details |-> details]

\* Event(event_type, objects, start_time, end_time, details); id stands for
\* the identity of the object built, which is what == compares for a class
\* that defines no __eq__.
Event(event_type, objects, start_time, end_time, details) ==
    [id |-> <<>>, event_type |-> event_type, objects |-> objects,
     start_time |-> start_time, end_time |-> end_time, details |-> details]

\* The list a detector returns from its run number run of the call: each
\* event is an object of its own.
Events(run, events) ==
    [raised |-> "nothing",
     events |-> [k \in DOMAIN events |-> [events[k] EXCEPT !.id = <<run, k>>]]]

RECURSIVE Concat(_)
Concat(lists) == IF lists = <<>> THEN <<>> ELSE Head(lists) \o Concat(Tail(lists))

\* A slip of the inner loop: the bodies already in computed are not skipped.
searched_pairs_no_computed ==
    Concat([a \in DOMAIN ASTERS |->
        IF ASTERS[a].type = "STAR" THEN <<>>
        ELSE Concat([b \in DOMAIN ASTERS |->
                IF ASTERS[b].type = "STAR" \/ b = a
                THEN <<>> ELSE << <<a, b>> >>])])

\* The pairs the two loops over ASTERS search, in order: the Sun is skipped,
\* and so are a body with itself and a body already in computed.
searched_pairs ==
    Concat([a \in DOMAIN ASTERS |->
        IF ASTERS[a].type = "STAR" THEN <<>>
        ELSE Concat([b \in DOMAIN ASTERS |->
                IF \/ ASTERS[b].type = "STAR"
                   \/ b = a
                   \/ \E c \in 1..(a - 1) : ASTERS[c].type # "STAR" /\ c = b
                THEN <<>> ELSE << <<a, b>> >>])])

\* A slip of the test on the discs: the radius of aster2 is left out.
conjunction_event_one_radius(x, start_time, end_time, timezone) ==
    LET aster1 == ASTERS[x.pair[1]]
        aster2 == ASTERS[x.pair[2]]
        at == translate_to_timezone(TimeAt(start_time, x.hours), timezone)
    IN  IF x.separation < x.radius1
        THEN Event("OCCULTATION",
                   IF x.distance1 < x.distance2 THEN <<aster1, aster2>>
                   ELSE <<aster2, aster1>>,
                   at, None, None)
        ELSE Event("CONJUNCTION", <<aster1, aster2>>, at, None, None)

\* The event of one crossing into conjunction: an occultation when the
\* discs overlap, the nearer body first.
conjunction_event(x, start_time, end_time, timezone) ==
    LET aster1 == ASTERS[x.pair[1]]
        aster2 == ASTERS[x.pair[2]]
        at == translate_to_timezone(TimeAt(start_time, x.hours), timezone)
    IN  IF x.separation - x.radius2 < x.radius1
        THEN Event("OCCULTATION",
                   IF x.distance1 < x.distance2 THEN <<aster1, aster2>>
                   ELSE <<aster2, aster1>>,
                   at, None, None)
        ELSE Event("CONJUNCTION", <<aster1, aster2>>, at, None, None)

\* A slip of the test on the discs: the else is lost, and an occultation is
\* followed by a conjunction of the same pair at the same time.
search_conjunctions_occultations_no_else(run, start_time, end_time, timezone) ==
    LET in_window == Found("conjunction", start_time, end_time)
        pair_events(p) ==
            LET found == find_discrete({x \in in_window : x.pair = p},
                                       "is_in_conjunction")
            IN  Concat([k \in DOMAIN found |->
                    IF is_in_conjunction(found[k].after)
                    THEN IF found[k].separation - found[k].radius2 < found[k].radius1
                         THEN << conjunction_event(found[k], start_time, end_time, timezone),
                                 Event("CONJUNCTION",
                                       <<ASTERS[p[1]], ASTERS[p[2]]>>,
                                       translate_to_timezone(
                                           TimeAt(start_time, found[k].hours), timezone),
                                       None, None) >>
                         ELSE <<conjunction_event(found[k], start_time, end_time, timezone)>>
                    ELSE <<>>])
    IN  Events(run, Concat([n \in DOMAIN searched_pairs |-> pair_events(searched_pairs[n])]))

\* _search_conjunctions_occultations(start_time, end_time, timezone)
search_conjunctions_occultations(run, start_time, end_time, timezone) ==
    LET in_window == Found("conjunction", start_time, end_time)
        pair_events(p) ==
            LET found == find_discrete({x \in in_window : x.pair = p},
                                       "is_in_conjunction")
            IN  Concat([k \in DOMAIN found |->
                    IF is_in_conjunction(found[k].after)
                    THEN <<conjunction_event(found[k], start_time, end_time, timezone)>>
                    ELSE <<>>])
    IN  Events(run, Concat([n \in DOMAIN searched_pairs |-> pair_events(searched_pairs[n])]))

\* A slip of the loop: the test on int(get_angle(time)) is lost.
search_oppositions_unchecked(run, start_time, end_time, timezone) ==
    LET in_window == Found("opposition", start_time, end_time)
        aster_events(a) ==
            LET found == find_discrete({x \in in_window : x.aster = a},
                                       "is_oppositing")
            IN  IF ASTERS[a].type # "PLANET"
                   \/ ASTERS[a].identifier \in {"MERCURY", "VENUS"}
                THEN <<>>
                ELSE [k \in DOMAIN found |->
                        Event("OPPOSITION", <<ASTERS[a]>>,
                              translate_to_timezone(
                                  TimeAt(start_time, found[k].hours), timezone),
                              None, None)]
    IN  Events(run, Concat([a \in DOMAIN ASTERS |-> aster_events(a)]))

\* A slip of the filter: only Mercury and Venus are skipped, whatever the
\* class of the body.
search_oppositions_any_body(run, start_time, end_time, timezone) ==
    LET in_window == Found("opposition", start_time, end_time)
        aster_events(a) ==
            LET found == find_discrete({x \in in_window : x.aster = a},
                                       "is_oppositing")
            IN  IF ASTERS[a].identifier \in {"MERCURY", "VENUS"}
                THEN <<>>
                ELSE Concat([k \in DOMAIN found |->
                        IF int(get_angle(found[k].after)) # 180 THEN <<>>
                        ELSE <<Event("OPPOSITION", <<ASTERS[a]>>,
                                     translate_to_timezone(
                                         TimeAt(start_time, found[k].hours), timezone),
                                     None, None)>>])
    IN  Events(run, Concat([a \in DOMAIN ASTERS |-> aster_events(a)]))

\* _search_oppositions(start_time, end_time, timezone)
search_oppositions(run, start_time, end_time, timezone) ==
    LET in_window == Found("opposition", start_time, end_time)
        aster_events(a) ==
            LET found == find_discrete({x \in in_window : x.aster = a},
                                       "is_oppositing")
            IN  IF ASTERS[a].type # "PLANET"
                   \/ ASTERS[a].identifier \in {"MERCURY", "VENUS"}
                THEN <<>>
                ELSE Concat([k \in DOMAIN found |->
                        IF int(get_angle(found[k].after)) # 180 THEN <<>>
                        ELSE <<Event("OPPOSITION", <<ASTERS[a]>>,
                                     translate_to_timezone(
                                         TimeAt(start_time, found[k].hours), timezone),
                                     None, None)>>])
    IN  Events(run, Concat([a \in DOMAIN ASTERS |-> aster_events(a)]))

\* get_aster(identifier), for the identifiers of ASTERS
get_aster(identifier) ==
    CHOOSE a \in DOMAIN ASTERS : ASTERS[a].identifier = identifier

\* _search_maximal_elongations(start_time, end_time, timezone)
search_maximal_elongations(run, start_time, end_time, timezone) ==
    LET planet_events(identifier) ==
            LET a == get_aster(identifier)
                found == InTimeOrder({x \in Found("elongation", start_time, end_time) : x.aster = a})
            IN  [k \in DOMAIN found |->
                    Event("MAXIMAL_ELONGATION", <<ASTERS[a]>>,
                          translate_to_timezone(
                              TimeAt(start_time, found[k].hours), timezone),
                          None, Some([deg |-> found[k].deg]))]
    IN  Events(run, planet_events("MERCURY") \o planet_events("VENUS"))

\* _search_apogee(to_aster, from_aster) and _search_perigee(aster, from_aster):
\* the maxima, or the minima, of the distance between the two.
search_apsis(run, event_type, to_aster, start_time, end_time, timezone) ==
    LET found == InTimeOrder({x \in Found(event_type, start_time, end_time) :
                                 x.aster = to_aster.identifier})
    IN  Events(run, [k \in DOMAIN found |->
            Event(event_type, <<to_aster>>,
                  translate_to_timezone(TimeAt(start_time, found[k].hours), timezone),
                  None, Some([distance_km |-> found[k].km]))])

SeasonType == <<"MARCH_EQUINOX", "JUNE_SOLSTICE", "SEPTEMBER_EQUINOX", "DECEMBER_SOLSTICE">>

\* _search_earth_season_change(start_time, end_time, timezone)
search_earth_season_change(run, start_time, end_time, timezone) ==
    LET found == InTimeOrder(Found("season", start_time, end_time))
    IN  IF Len(found) = 0 THEN Events(run, <<>>)
        ELSE Events(run, <<Event("SEASON_CHANGE", <<>>,
                            translate_to_timezone(
                                TimeAt(start_time, found[1].hours), timezone),
                            None, Some([season |-> SeasonType[found[1].season + 1]]))>>)

LunarEclipseType == <<"PENUMBRAL", "PARTIAL", "TOTAL">>

\* _search_lunar_eclipse(start_time, end_time, timezone): for each maximum,
\* the first penumbra crossing found from a day before the window to the
\* maximum and the first found from the maximum to a day after the window.
\* is_in_penumbra adds details["moon_radius_radians"], the array with one
\* radius per eclipse of the window, to the longitudes of the instants
\* find_discrete samples: with more than one eclipse the two arrays do not
\* broadcast and numpy raises ValueError in the first search.
search_lunar_eclipse(run, start_time, end_time, timezone) ==
    LET found == InTimeOrder(Found("eclipse", start_time, end_time))
        moon == ASTERS[get_aster("MOON")]
    IN  IF Len(found) > 1 THEN [raised |-> "ValueError"]
        ELSE IF \E k \in DOMAIN found : found[k].starts = <<>> \/ found[k].ends = <<>>
        THEN [raised |-> "IndexError"]
        ELSE Events(run, [k \in DOMAIN found |->
                Event("LUNAR_ECLIPSE", <<moon>>,
                      translate_to_timezone(
                          TimeAt(start_time, found[k].starts[1]), timezone),
                      Some(translate_to_timezone(
                          TimeAt(start_time, found[k].ends[1]), timezone)),
                      Some([type |-> LunarEclipseType[found[k].y + 1],
                            maximum |-> translate_to_timezone(
                                TimeAt(start_time, found[k].hours), timezone)]))])

(***************************************************************************)
(* kosmorrolib/events.py: get_events and search_events                     *)
(***************************************************************************)
\* One detector run.  provider.fails names the detector whose queries leave
\* the provider's coverage: it raises EphemerisRangeError.
run_detector(unit, run, start_time, end_time, timezone) ==
    IF provider.fails = unit THEN [raised |-> "EphemerisRangeError"]
    ELSE CASE unit = "oppositions" -> search_oppositions(run, start_time, end_time, timezone)
           [] unit = "conjunctions_occultations" ->
                  search_conjunctions_occultations(run, start_time, end_time, timezone)
           [] unit = "maximal_elongations" ->
                  search_maximal_elongations(run, start_time, end_time, timezone)
           [] unit = "apogee_moon" ->
                  search_apsis(run, "APOGEE", ASTERS[2], start_time, end_time, timezone)
           [] unit = "perigee_moon" ->
                  search_apsis(run, "PERIGEE", ASTERS[2], start_time, end_time, timezone)
           [] unit = "apogee_earth" ->
                  search_apsis(run, "APOGEE", EARTH, start_time, end_time, timezone)
           [] unit = "perigee_earth" ->
                  search_apsis(run, "PERIGEE", EARTH, start_time, end_time, timezone)
           [] unit = "earth_season_change" ->
                  search_earth_season_change(run, start_time, end_time, timezone)
           [] unit = "lunar_eclipse" -> search_lunar_eclipse(run, start_time, end_time, timezone)

\* search_funcs: the detector runs of each event type.
search_funcs(event_type) ==
    CASE event_type = "OPPOSITION" -> <<"oppositions">>
      [] event_type = "CONJUNCTION" -> <<"conjunctions_occultations">>
      [] event_type = "OCCULTATION" -> <<"conjunctions_occultations">>
      [] event_type = "MAXIMAL_ELONGATION" -> <<"maximal_elongations">>
      [] event_type = "APOGEE" -> <<"apogee_moon", "apogee_earth">>
      [] event_type = "PERIGEE" -> <<"perigee_moon", "perigee_earth">>
      [] event_type = "SEASON_CHANGE" -> <<"earth_season_change">>
      [] event_type = "LUNAR_ECLIPSE" -> <<"lunar_eclipse">>

\* The detectors get_events runs, in order.
all_detectors ==
    << "oppositions", "conjunctions_occultations", "maximal_elongations",
       "apogee_moon", "perigee_moon", "apogee_earth", "perigee_earth",
       "earth_season_change", "lunar_eclipse" >>

\* event in found_events: Event defines no __eq__, so two events are equal
\* only when they are the same object.
event_in(event, found_events) ==
    \E k \in DOMAIN found_events : found_events[k].id = event.id

\* The loop "for event in events: if event not in found_events: append".
RECURSIVE append_new(_, _)
append_new(found_events, events) ==
    IF events = <<>> THEN found_events
    ELSE append_new(IF event_in(Head(events), found_events) THEN found_events
                    ELSE Append(found_events, Head(events)),
                    Tail(events))

\* A slip of sorted(): the list is returned as the detectors filled it.
sorted_by_start_time_unsorted(events) == events

\* sorted(events, key=lambda event: event.start_time): a stable sort.
RECURSIVE sorted_by_start_time(_)
sorted_by_start_time(events) ==
    IF events = <<>> THEN <<>>
    ELSE LET rest == sorted_by_start_time(Tail(events))
             e == Head(events)
             before == SelectSeq(rest, LAMBDA x : Earlier(x.start_time, e.start_time))
             after == SelectSeq(rest, LAMBDA x : ~Earlier(x.start_time, e.start_time))
         IN  before \o <<e>> \o after

\* A slip of the handler: the bounds are not moved to the caller's timezone.
events_range_error_utc(error, timezone) ==
    OutOfRangeDateError(Raisable(DateOf(error.start_time)),
                        Raisable(DateOf(error.end_time)))

\* The handler of EphemerisRangeError in get_events and search_events.
events_range_error(error, timezone) ==
    LET start_date == translate_to_timezone(error.start_time, timezone)
        end_date == translate_to_timezone(error.end_time, timezone)
    IN  OutOfRangeDateError(Raisable(DateOf(start_date)), Raisable(DateOf(end_date)))

\* The detector runs of a call, one after the other from run number k: the
\* lists they returned and the runs started, or the exception of the first
\* run that raised.
RECURSIVE run_all(_, _, _, _, _, _)
run_all(units, k, start_time, end_time, timezone, lists) ==
    IF k > Len(units) THEN [raised |-> "nothing", lists |-> lists, ran |-> units]
    ELSE LET r == run_detector(units[k], k, start_time, end_time, timezone)
         IN  IF r.raised # "nothing"
             THEN [raised |-> r.raised, ran |-> SubSeq(units, 1, k)]
             ELSE run_all(units, k + 1, start_time, end_time, timezone, Append(lists, r.events))

\* What a call made of the runs returns or raises.
assembled(runs, events, timezone) ==
    IF runs.raised = "EphemerisRangeError"
    THEN events_range_error(provider.error, timezone)
    ELSE IF runs.raised # "nothing" THEN [raised |-> runs.raised]
    ELSE [raised |-> "nothing", value |-> sorted_by_start_time(events)]

get_events_runs(for_date, timezone) ==
    run_all(all_detectors, 1,
            utc(for_date.year, for_date.month, for_date.day, 0 - timezone, 0, 0),
            utc(for_date.year, for_date.month, for_date.day + 1, 0 - timezone, 0, 0),
            timezone, <<>>)

\* get_events(for_date, timezone)
get_events(for_date, timezone) ==
    LET runs == get_events_runs(for_date, timezone)
    IN  assembled(runs,
                  IF runs.raised = "nothing"
                  THEN flatten_list([k \in DOMAIN runs.lists |->
                                        [list |-> runs.lists[k]]])
                  ELSE <<>>,
                  timezone)

\* A slip of the range check: equal dates are refused too.
DateAfterOrSame(a, b) == ToOrdinal(a) >= ToOrdinal(b)

\* start > end, for two dates
DateAfter(a, b) == ToOrdinal(a) > ToOrdinal(b)

search_events_runs(event_types, end, start, timezone) ==
    run_all(Concat([k \in DOMAIN event_types |-> search_funcs(event_types[k])]), 1,
            utc(start.year, start.month, start.day, 0 - timezone, 0, 0),
            utc(end.year, end.month, end.day + 1, 0 - timezone, 0, 0),
            timezone, <<>>)

\* search_events(event_types, end, start, timezone)
search_events(event_types, end, start, timezone) ==
    LET runs == search_events_runs(event_types, end, start, timezone)
    IN  IF DateAfter(start, end) THEN [raised |-> "InvalidDateRangeError"]
        ELSE assembled(runs,
                       IF runs.raised = "nothing"
                       THEN flatten_list(append_new(<<>>, Concat(runs.lists)))
                       ELSE <<>>,
                       timezone)

(***************************************************************************)
(* SpecEvents: get_events and search_events over small skies.              *)
(***************************************************************************)
EventTypes ==
    { "OPPOSITION", "CONJUNCTION", "OCCULTATION", "MAXIMAL_ELONGATION",
      "PERIGEE", "APOGEE", "SEASON_CHANGE", "LUNAR_ECLIPSE" }

\* The lists of event types asked for: none, one type, the same type twice,
\* or two different types of those whose detectors the model's skies feed
\* most (conjunctions and occultations share one detector).
PairedTypes == {"OPPOSITION", "CONJUNCTION", "OCCULTATION", "LUNAR_ECLIPSE"}

EventTypeLists ==
    {<<>>} \cup {<<t>> : t \in EventTypes} \cup {<<t, t>> : t \in EventTypes}
           \cup {<<t1, t2>> : t1 \in PairedTypes, t2 \in PairedTypes}

Crossing(pair, hours, before, after, separation, radius1, radius2, distance1, distance2) ==
    [kind |-> "conjunction", pair |-> pair, hours |-> hours,
     before |-> before, after |-> after,
     separation |-> separation, radius1 |-> radius1, radius2 |-> radius2,
     distance1 |-> distance1, distance2 |-> distance2]

\* What can happen in the window: the Moon passes Venus late, Mercury
\* passes Neptune early, the Moon covers Mars, the Moon passes the point
\* opposite Venus, Mars is in opposition with the Sun past 180 degrees, the Moon is at apogee, a solstice, a total lunar eclipse,
\* Mercury at its greatest elongation, a penumbral eclipse at 01:00 whose
\* penumbra entry is two hours before the window, and a partial eclipse for
\* which the finder returns no penumbra entry.
\* Separations and radii are in arc seconds, longitudes in tenths of a
\* degree, distances in thousands of km.
SkyUniverse ==
    { Crossing(<<2, 4>>, 20, <<849, 850>>, <<851, 850>>, 10800, 900, 30, 400, 60000),
      Crossing(<<3, 9>>, 3, <<3499, 3500>>, <<3501, 3500>>, 3600, 3, 1, 90000,
               4500000),
      Crossing(<<2, 5>>, 12, <<199, 200>>, <<201, 200>>, 300, 900, 5, 400, 200000),
      Crossing(<<2, 4>>, 8, <<2649, 850>>, <<2651, 850>>, 648000, 900, 30, 400,
               60000),
      [kind |-> "opposition", aster |-> 5, hours |-> 5,
       before |-> <<1999, 200>>, after |-> <<2001, 200>>],
      [kind |-> "APOGEE", aster |-> "MOON", hours |-> 21, km |-> 406211],
      [kind |-> "season", hours |-> 10, season |-> 1],
      [kind |-> "eclipse", hours |-> 11, y |-> 2, starts |-> <<9>>, ends |-> <<14>>],
      [kind |-> "elongation", aster |-> 3, hours |-> 7, deg |-> 27],
      [kind |-> "eclipse", hours |-> 1, y |-> 0, starts |-> <<0 - 2>>, ends |-> <<4>>],
      [kind |-> "eclipse", hours |-> 16, y |-> 1, starts |-> <<>>, ends |-> <<19>>] }

MaxSky == 2

\* The skies of a window of a day or two: a few phenomena, and never two
\* lunar eclipses.
Skies(n) ==
    {S \in SUBSET SkyUniverse :
        Cardinality(S) <= n /\ Cardinality({x \in S : x.kind = "eclipse"}) <= 1}

\* The skies tried with a detector whose queries leave the coverage: empty,
\* or with one phenomenon of the first or of the eighth detector.
FailingSkies ==
    {S \in Skies(1) : \A x \in S : x.kind \in {"opposition", "season"}}

\* Skies the provider covers, and skies where the queries of one detector
\* leave its coverage.
SkyProviders ==
    { [kind |-> "sky", sky |-> S, fails |-> "none", error |-> None] :
        S \in Skies(MaxSky) }
    \cup
    { [kind |-> "sky", sky |-> S, fails |-> u,
       error |-> [start_time |-> DateTime(2020, 7, 28, 23, 0, 0, 0, Some(0)),
                  end_time |-> DateTime(2021, 10, 8, 1, 0, 0, 0, Some(0))]] :
        S \in FailingSkies, u \in Range(all_detectors) }

EventTimezones == {0, 2}

EventRanges ==
    { [start |-> Date(2020, 6, 20), end |-> Date(2020, 6, 20)],
      [start |-> Date(2020, 6, 20), end |-> Date(2020, 6, 21)],
      [start |-> Date(2020, 6, 21), end |-> Date(2020, 6, 20)] }

InitEvents ==
    /\ provider \in SkyProviders
    /\ args \in {[event_types |-> ts, start |-> r.start, end |-> r.end,
                  timezone |-> tz] :
                    ts \in EventTypeLists, r \in EventRanges, tz \in EventTimezones}
    /\ op = "none"
    /\ outcome = NoOutcome
    /\ ran = <<>>

\* get_events(args.start, args.timezone)
GetEvents ==
    /\ op = "none"
    /\ op' = "get_events"
    /\ outcome' = get_events(args.start, args.timezone)
    /\ ran' = get_events_runs(args.start, args.timezone).ran
    /\ UNCHANGED <<provider, args>>

\* search_events(args.event_types, args.end, args.start, args.timezone)
SearchEvents ==
    /\ op = "none"
    /\ op' = "search_events"
    /\ outcome' = search_events(args.event_types, args.end, args.start, args.timezone)
    /\ ran' = IF DateAfter(args.start, args.end) THEN <<>>
              ELSE search_events_runs(args.event_types, args.end, args.start,
                                      args.timezone).ran
    /\ UNCHANGED <<provider, args>>

NextEvents == GetEvents \/ SearchEvents

SpecEvents == InitEvents /\ [][NextEvents]_vars

SameValue(e1, e2) == [e1 EXCEPT !.id = <<>>] = [e2 EXCEPT !.id = <<>>]

\* C2: the list search_events returns holds no two value-equal events (same
\* type, bodies, start and end time, details), whatever types are asked for.
C2_NoValueEqualDuplicates ==
    (op = "search_events" /\ Returned) =>
        \A i \in DOMAIN outcome.value, j \in DOMAIN outcome.value :
            i # j => ~SameValue(outcome.value[i], outcome.value[j])

\* C3: the list get_events or search_events returns is in non-decreasing
\* order of start_time.
C3_SortedByStartTime ==
    (op \in {"get_events", "search_events"} /\ Returned) =>
        \A i \in DOMAIN outcome.value, j \in DOMAIN outcome.value :
            i < j => ~Earlier(outcome.value[j].start_time, outcome.value[i].start_time)

\* Two events are returned in the order of their times although the later
\* detector run, or the later place in one detector's list, gave the
\* earlier event.
C3_Witness ==
    /\ op \in {"get_events", "search_events"} /\ Returned
    /\ \E i \in DOMAIN outcome.value, j \in DOMAIN outcome.value :
          /\ i < j
          /\ Earlier(outcome.value[i].start_time, outcome.value[j].start_time)
          /\ \/ outcome.value[i].id[1] > outcome.value[j].id[1]
             \/ /\ outcome.value[i].id[1] = outcome.value[j].id[1]
                /\ outcome.value[i].id[2] > outcome.value[j].id[2]

FailingRun == provider.fails # "none" /\ provider.fails \in Range(ran)

\* C4: when a detector raises the provider's coverage error, get_events and
\* search_events return no events and raise one OutOfRangeDateError whose
\* dates are the civil dates of the coverage bounds in the caller's
\* timezone; what earlier detectors found is dropped.
C4_CoverageErrorAborts ==
    (op \in {"get_events", "search_events"} /\ FailingRun) =>
        outcome = [raised |-> "OutOfRangeDateError",
                   min_date |-> LocalDateOf(provider.error.start_time),
                   max_date |-> LocalDateOf(provider.error.end_time)]

\* The window the detectors of the call search: from local midnight of
\* the first day to local midnight after the last day, in UTC.
WindowStart ==
    utc(args.start.year, args.start.month, args.start.day, 0 - args.timezone, 0, 0)

WindowEnd ==
    IF op = "search_events"
    THEN utc(args.end.year, args.end.month, args.end.day + 1, 0 - args.timezone, 0, 0)
    ELSE utc(args.start.year, args.start.month, args.start.day + 1,
             0 - args.timezone, 0, 0)

\* A detector ran and found an event, a later one left the coverage, and
\* the bounds reported are on other civil days than in UTC.
C4_Witness ==
    /\ op \in {"get_events", "search_events"} /\ FailingRun
    /\ \E k \in DOMAIN ran :
          /\ ran[k] # provider.fails
          /\ run_detector(ran[k], k, WindowStart, WindowEnd,
                          args.timezone).events # <<>>
    /\ outcome.raised = "OutOfRangeDateError"
    /\ outcome.min_date # DateOf(provider.error.start_time)

(***************************************************************************)
(* kosmorrolib/model.py: MoonPhase                                         *)
(***************************************************************************)
\* MoonPhase(phase_type, time, next_phase_date)
MoonPhase(phase_type, time, next_phase_date) ==
    [phase_type |-> phase_type, time |-> time, next_phase_date |-> next_phase_date]

\* A slip of the last branch: a last quarter is followed by a first quarter.
get_next_phase_skips_new_moon(self) ==
    IF self.phase_type \in {"NEW_MOON", "WAXING_CRESCENT"} THEN "FIRST_QUARTER"
    ELSE IF self.phase_type \in {"FIRST_QUARTER", "WAXING_GIBBOUS"} THEN "FULL_MOON"
    ELSE IF self.phase_type \in {"FULL_MOON", "WANING_GIBBOUS"} THEN "LAST_QUARTER"
    ELSE "FIRST_QUARTER"

\* MoonPhase.get_next_phase(self)
get_next_phase(self) ==
    IF self.phase_type \in {"NEW_MOON", "WAXING_CRESCENT"} THEN "FIRST_QUARTER"
    ELSE IF self.phase_type \in {"FIRST_QUARTER", "WAXING_GIBBOUS"} THEN "FULL_MOON"
    ELSE IF self.phase_type \in {"FULL_MOON", "WANING_GIBBOUS"} THEN "LAST_QUARTER"
    ELSE "NEW_MOON"

(***************************************************************************)
(* SpecPhase: a MoonPhase object is built, get_next_phase is called on it, *)
(* a MoonPhase of the phase returned is built, and so on.  ran is the list *)
(* of the phases returned so far.                                          *)
(***************************************************************************)
MaxCalls == 5

PhaseTimes ==
    { None,
      Some(DateTime(2021, 3, 28, 18, 48, 10, 902298, Some(0))),
      Some(DateTime(2021, 3, 28, 20, 48, 10, 902298, Some(2))) }

MoonPhases ==
    { MoonPhase(MoonPhaseType(v), t, n) :
        v \in 0..7, t \in PhaseTimes, n \in PhaseTimes }

InitPhase ==
    /\ provider = NoProvider
    /\ args \in MoonPhases
    /\ op = "none"
    /\ outcome = NoOutcome
    /\ ran = <<>>

\* args.get_next_phase()
GetNextPhase ==
    /\ op \in {"none", "MoonPhase"}
    /\ Len(ran) < MaxCalls
    /\ op' = "get_next_phase"
    /\ outcome' = [raised |-> "nothing", value |-> get_next_phase(args)]
    /\ ran' = Append(ran, get_next_phase(args))
    /\ UNCHANGED <<provider, args>>

\* MoonPhase(<the phase returned by the last call>)
NewMoonPhase ==
    /\ op = "get_next_phase"
    /\ op' = "MoonPhase"
    /\ args' = MoonPhase(outcome.value, None, None)
    /\ UNCHANGED <<provider, outcome, ran>>

NextPhase == GetNextPhase \/ NewMoonPhase

SpecPhase == InitPhase /\ [][NextPhase]_vars

\* The exact phase that follows each of the eight phases.
FollowingExactPhase ==
    [ NEW_MOON |-> "FIRST_QUARTER", WAXING_CRESCENT |-> "FIRST_QUARTER",
      FIRST_QUARTER |-> "FULL_MOON", WAXING_GIBBOUS |-> "FULL_MOON",
      FULL_MOON |-> "LAST_QUARTER", WANING_GIBBOUS |-> "LAST_QUARTER",
      LAST_QUARTER |-> "NEW_MOON", WANING_CRESCENT |-> "NEW_MOON" ]

ExactCycle == <<"NEW_MOON", "FIRST_QUARTER", "FULL_MOON", "LAST_QUARTER">>

PlaceInCycle(phase) == CHOOSE k \in 1..4 : ExactCycle[k] = phase

\* C12: get_next_phase maps each of the eight phases to the exact phase
\* that follows it, whatever the times of the object; applied again and
\* again it goes round New, FirstQuarter, Full, LastQuarter, New.
C12_NextPhaseCycles ==
    /\ op = "get_next_phase" =>
          outcome = [raised |-> "nothing", value |-> FollowingExactPhase[args.phase_type]]
    /\ \A k \in DOMAIN ran :
          /\ ran[k] \in ExactPhases
          /\ k > 1 => PlaceInCycle(ran[k]) = (PlaceInCycle(ran[k - 1]) % 4) + 1

\* Five calls in a row from a waning crescent: New, FirstQuarter, Full,
\* LastQuarter and New again.
C12_Witness ==
    /\ op = "get_next_phase"
    /\ ran = <<"NEW_MOON", "FIRST_QUARTER", "FULL_MOON", "LAST_QUARTER", "NEW_MOON">>

\* The local time, in the caller's timezone, of the instant hours after the
\* start of the window of the call: local midnight of args.start.
EventLocalTime(hours) ==
    PlusSeconds(DateTime(args.start.year, args.start.month, args.start.day,
                         0, 0, 0, 0, Some(args.timezone)),
                hours * 3600)

\* The places in the returned list of the events that run r of the
\* conjunction detector emitted for crossing x: events of kind CONJUNCTION
\* or OCCULTATION of the two bodies of x at the time of x.
EmittedFor(r, x) ==
    {k \in DOMAIN outcome.value :
        /\ outcome.value[k].id[1] = r
        /\ outcome.value[k].event_type \in {"CONJUNCTION", "OCCULTATION"}
        /\ Range(outcome.value[k].objects) = {ASTERS[x.pair[1]], ASTERS[x.pair[2]]}
        /\ outcome.value[k].start_time = EventLocalTime(x.hours)}

IsDatetime(v) == "year" \in DOMAIN v

\* C14: every event a detector returns, and so every event get_events and
\* search_events return, has a start_time, and has an end_time exactly when
\* its type is LUNAR_ECLIPSE.
C14_EndTimeOnlyForLunarEclipse ==
    (op \in {"get_events", "search_events"} /\ Returned) =>
        \A k \in DOMAIN outcome.value :
            /\ IsDatetime(outcome.value[k].start_time)
            /\ ~IsNone(outcome.value[k].end_time)
                   <=> outcome.value[k].event_type = "LUNAR_ECLIPSE"
            /\ ~IsNone(outcome.value[k].end_time)
                   => IsDatetime(Get(outcome.value[k].end_time))

\* A lunar eclipse with its end time and an event of another type without
\* one are returned by the same call.
C14_Witness ==
    /\ op \in {"get_events", "search_events"} /\ Returned
    /\ \E k \in DOMAIN outcome.value, j \in DOMAIN outcome.value :
          /\ outcome.value[k].event_type = "LUNAR_ECLIPSE"
          /\ ~IsNone(outcome.value[k].end_time)
          /\ outcome.value[j].event_type # "LUNAR_ECLIPSE"
          /\ IsNone(outcome.value[j].end_time)

\* C15: when the provider covers the window, no entry point raises because
\* nothing was found: no crossing, no culmination or several, no maximum,
\* no season change, no eclipse, and a finder that returns an empty list
\* (no bucket change of the Moon, no penumbra entry or exit around an
\* eclipse maximum) give absent values or an empty list, never an exception.
C15_NothingFoundIsNoError ==
    /\ (op \in {"get_ephemerides", "get_moon_phase"} /\ Covered)
           => outcome.raised = "nothing"
    /\ (op = "get_events" /\ provider.fails = "none")
           => outcome.raised = "nothing"
    /\ (op = "search_events" /\ provider.fails = "none"
                             /\ ~DateAfter(args.start, args.end))
           => outcome.raised = "nothing"

(***************************************************************************)
(* kosmorrolib/model.py: Object.get_apparent_radius                        *)
(***************************************************************************)
\* Star, Planet or Satellite (identifier, skyfield_object, radius): type is
\* what get_type() returns; skyfield_object is "SkfPlanet" for an object of
\* the ephemeris and "str" for a name given in its place; radius is in km.
Object(identifier, type, skyfield_object, radius) ==
    [identifier |-> identifier, type |-> type,
     skyfield_object |-> skyfield_object, radius |-> radius]

\* The radii of ASTERS, in whole km.
Radii == <<696342, 1737, 2439, 6051, 3396, 71492, 60268, 25559, 24764, 1185>>

\* Object.get_apparent_radius(self, for_date), distance being the distance
\* the provider gives for the body at for_date, in thousands of km.
\* observe() needs an object of the ephemeris; self.radius / distance.km is
\* a TypeError for a radius of None.  The angle asin(radius / km) * 2 is in
\* arc seconds, the arc sine taken as its argument.
get_apparent_radius(self, distance) ==
    IF self.skyfield_object = "str" THEN [raised |-> "AttributeError"]
    ELSE IF IsNone(self.radius) THEN [raised |-> "TypeError"]
    ELSE [raised |-> "nothing", value |-> (413 * Get(self.radius)) \div distance]

(***************************************************************************)
(* SpecRadius: get_apparent_radius on a body built with or without radius. *)
(***************************************************************************)
\* Distances from the Earth, in thousands of km.
Distances == {357, 406, 38000, 147100, 152100, 4500000}

RadiusObjects ==
    UNION { { Object(ASTERS[a].identifier, ASTERS[a].type, skf, r) :
                skf \in {"SkfPlanet", "str"}, r \in {None, Some(Radii[a])} }
            : a \in DOMAIN ASTERS }

InitRadius ==
    /\ provider \in {[kind |-> "distance", distance |-> d] : d \in Distances}
    /\ args \in {[self |-> o] : o \in RadiusObjects}
    /\ op = "none"
    /\ outcome = NoOutcome
    /\ ran = <<>>

\* args.self.get_apparent_radius(for_date)
GetApparentRadius ==
    /\ op = "none"
    /\ op' = "get_apparent_radius"
    /\ outcome' = get_apparent_radius(args.self, provider.distance)
    /\ UNCHANGED <<provider, args, ran>>

NextRadius == GetApparentRadius

SpecRadius == InitRadius /\ [][NextRadius]_vars

\* C16: get_apparent_radius on a body built without a radius raises the
\* ValueError 'Missing radius for <identifier>' and no other error.
C16_MissingRadiusError ==
    (op = "get_apparent_radius" /\ IsNone(args.self.radius)) =>
        /\ outcome.raised = "ValueError"
        /\ outcome.args = <<"Missing radius for", args.self.identifier>>

(***************************************************************************)
(* SpecTz: calls of translate_to_timezone, with and without a from_tz      *)
(* keyword argument.                                                       *)
(***************************************************************************)
\* The call translate_to_timezone(date, to_tz=to_tz) or, when from_tz is
\* given, translate_to_timezone(date, to_tz=to_tz, from_tz=from_tz): the
\* function has the parameters date and to_tz only, and a call with another
\* keyword raises TypeError.
call_translate_to_timezone(date, to_tz, from_tz) ==
    IF ~IsNone(from_tz) THEN [raised |-> "TypeError"]
    ELSE [raised |-> "nothing", value |-> translate_to_timezone(date, to_tz)]

TzWallClocks ==
    { DateTime(2020, 6, 9, 8, 0, 0, 0, None), DateTime(2020, 6, 9, 1, 0, 0, 0, None),
      DateTime(2021, 6, 9, 5, 0, 0, 0, None), DateTime(2020, 12, 31, 23, 30, 15, 250000, None),
      DateTime(2020, 3, 1, 0, 59, 59, 999999, None), DateTime(2021, 1, 1, 0, 0, 0, 0, None) }

TzOffsets == {0 - 11, 0 - 2, 0, 1, 2, 6}

TzDates ==
    { [d EXCEPT !.tzinfo = tz] :
        d \in TzWallClocks, tz \in {None} \cup {Some(k) : k \in TzOffsets} }

InitTz ==
    /\ provider = NoProvider
    /\ args \in {[date |-> d, to_tz |-> to, from_tz |-> from] :
                    d \in TzDates, to \in TzOffsets,
                    from \in {None} \cup {Some(k) : k \in TzOffsets}}
    /\ op = "none"
    /\ outcome = NoOutcome
    /\ ran = <<>>

TranslateToTimezone ==
    /\ op = "none"
    /\ op' = "translate_to_timezone"
    /\ outcome' = call_translate_to_timezone(args.date, args.to_tz, args.from_tz)
    /\ UNCHANGED <<provider, args, ran>>

NextTz == TranslateToTimezone

SpecTz == InitTz /\ [][NextTz]_vars

\* The wall clock of dt moved by hours: the day and the second of the day.
ShiftedClock(dt, hours) ==
    LET total == SecondOfDay(dt) + 3600 * hours
    IN  <<ToOrdinal(dt) + (total \div 86400), total % 86400, dt.microsecond>>

\* C17: translate_to_timezone(d, to_tz, from_tz) reads the naive datetime d
\* as local time at offset from_tz hours and returns the same instant at
\* offset to_tz: the wall clock moved by (to_tz - from_tz) hours, the day
\* carried.
C17_FromTzToTz ==
    (/\ op = "translate_to_timezone"
     /\ ~IsNone(args.from_tz)
     /\ IsNone(args.date.tzinfo)) =>
        /\ outcome.raised = "nothing"
        /\ ShiftedClock(outcome.value, 0) =
               ShiftedClock(args.date, args.to_tz - Get(args.from_tz))

\* C18: translate_to_timezone(d, to_tz) returns a datetime at offset to_tz
\* hours that is the same instant as d; a d without timezone information is
\* read as UTC, a d with another offset is converted from that offset.
C18_SameInstantAtToTz ==
    (op = "translate_to_timezone" /\ IsNone(args.from_tz)) =>
        /\ outcome.raised = "nothing"
        /\ outcome.value.tzinfo = Some(args.to_tz)
        /\ DaysInMonth(outcome.value.year, outcome.value.month) >= outcome.value.day
        /\ ShiftedClock(outcome.value, 0 - args.to_tz) =
               ShiftedClock(args.date,
                            IF IsNone(args.date.tzinfo) THEN 0
                            ELSE 0 - Get(args.date.tzinfo))

\* 23:30:15 on 31 December at UTC-11 becomes 12:30:15 on 1 January of the
\* next year at UTC+2.
C18_Witness ==
    /\ op = "translate_to_timezone" /\ IsNone(args.from_tz)
    /\ args.date = DateTime(2020, 12, 31, 23, 30, 15, 250000, Some(0 - 11))
    /\ args.to_tz = 2
    /\ outcome.raised = "nothing"
    /\ outcome.value = DateTime(2021, 1, 1, 12, 30, 15, 250000, Some(2))

(***************************************************************************)
(* SpecFlat: flatten_list on lists nested up to three levels, as in        *)
(* flatten_list([0, 1, 2, [3, 4, [5, 6], 7], 8, [9]]).                     *)
(***************************************************************************)
MaxLeaves == 2

\* The items that are not lists.
FlatLeaves == {[leaf |-> n] : n \in 1..MaxLeaves}

\* The lists of at most two of the items.
UpToTwo(items) ==
    {<<>>} \cup {<<a>> : a \in items} \cup {<<a, b>> : a \in items, b \in items}

Nested(lists) == {[list |-> q] : q \in lists}

FlatLists1 == UpToTwo(FlatLeaves)

FlatLists2 == UpToTwo(FlatLeaves \cup Nested(FlatLists1))

FlatLists3 == UpToTwo(FlatLeaves \cup Nested(FlatLists2))

InitFlat ==
    /\ provider = NoProvider
    /\ args \in {[the_list |-> q] : q \in FlatLists3}
    /\ op = "none"
    /\ outcome = NoOutcome
    /\ ran = <<>>

FlattenList ==
    /\ op = "none"
    /\ op' = "flatten_list"
    /\ outcome' = [raised |-> "nothing", value |-> flatten_list(args.the_list)]
    /\ UNCHANGED <<provider, args, ran>>

NextFlat == FlattenList

SpecFlat == InitFlat /\ [][NextFlat]_vars

\* The leaves of a nested list from left to right, each nested list in the
\* place where it stands.
RECURSIVE LeavesInOrder(_)
LeavesInOrder(q) ==
    Concat([k \in DOMAIN q |->
               IF IsList(q[k]) THEN LeavesInOrder(q[k].list) ELSE <<q[k]>>])

\* C19: flatten_list returns a list with no list among its elements, which
\* holds the non-list leaves of its input from left to right, depth first,
\* whatever the nesting; a flat list is returned equal.
C19_FlattenList ==
    op = "flatten_list" =>
        /\ outcome.raised = "nothing"
        /\ \A k \in DOMAIN outcome.value : ~IsList(outcome.value[k])
        /\ outcome.value = LeavesInOrder(args.the_list)
        /\ (\A k \in DOMAIN args.the_list : ~IsList(args.the_list[k]))
               => outcome.value = args.the_list

\* [[[1, 2], 2], [1, [2, 1]]] is flattened to [1, 2, 2, 1, 2, 1].
C19_Witness ==
    /\ op = "flatten_list"
    /\ args.the_list =
          << [list |-> << [list |-> <<[leaf |-> 1], [leaf |-> 2]>>], [leaf |-> 2] >>],
             [list |-> << [leaf |-> 1], [list |-> <<[leaf |-> 2], [leaf |-> 1]>>] >>] >>
    /\ outcome.value = << [leaf |-> 1], [leaf |-> 2], [leaf |-> 2],
                          [leaf |-> 1], [leaf |-> 2], [leaf |-> 1] >>

\* C20: every event search_events returns for start = end = d and
\* timezone tz, and every event get_events(d, tz) returns, has a start_time
\* on civil day d in timezone tz, whatever its type, LUNAR_ECLIPSE included.
C20_EventsOnRequestedDay ==
    (/\ op = "get_events" \/ (op = "search_events" /\ args.start = args.end)
     /\ Returned) =>
        \A k \in DOMAIN outcome.value :
            /\ outcome.value[k].start_time.tzinfo = Some(args.timezone)
            /\ DateOf(outcome.value[k].start_time) = args.start

(***************************************************************************)
(* SpecDetect: the detectors called on their own, as their doctests call   *)
(* them, over windows from a day to ten months.                            *)
(***************************************************************************)
\* A change of the Sun-body observable of _search_oppositions, or an
\* opposition: the longitudes <<Sun, body>> before and after.
Alignment(aster, hours, before, after) ==
    [kind |-> "opposition", aster |-> aster, hours |-> hours,
     before |-> before, after |-> after]

\* What can happen from the start of the window, in hours from it.
\* Pairs of bodies: the Moon passes Venus; Venus passes Mercury while
\* Mercury is retrograde; retrograde Mars passes the point opposite Jupiter;
\* the Moon grazes Jupiter's disc; the Moon passes the point opposite Mars.
\* Sun and body: Mars in opposition with the Sun at 201 degrees; Jupiter in
\* opposition with the Sun at 112 degrees; Saturn passes longitude 0 with
\* the Sun at 300 degrees; the Sun passes longitude 0 with Uranus at 40
\* degrees; the Moon passes longitude 0, full, with the Sun at 180.5 degrees.
\* Two solstices or equinoxes, and two penumbral eclipses a lunar month
\* apart.
DetectUniverse ==
    { Crossing(<<2, 4>>, 20, <<849, 850>>, <<851, 850>>, 10800, 900, 30, 400, 60000),
      Crossing(<<3, 4>>, 30, <<901, 899>>, <<899, 901>>, 7200, 5, 25, 90000, 50000),
      Crossing(<<5, 6>>, 900, <<1101, 2900>>, <<1099, 2900>>, 648000, 10, 20, 70000,
               900000),
      Crossing(<<2, 6>>, 60, <<2899, 2900>>, <<2901, 2900>>, 910, 900, 20, 400,
               700000),
      Crossing(<<2, 5>>, 70, <<2899, 1100>>, <<2901, 1100>>, 648000, 900, 10, 400,
               70000),
      Alignment(5, 3239, <<2009, 210>>, <<2011, 210>>),
      Alignment(6, 1040, <<1119, 2920>>, <<1121, 2920>>),
      Alignment(7, 5592, <<3000, 3599>>, <<3000, 1>>),
      Alignment(8, 7017, <<3599, 400>>, <<1, 400>>),
      Alignment(2, 2740, <<1805, 3599>>, <<1805, 1>>),
      [kind |-> "season", hours |-> 477, season |-> 1],
      [kind |-> "season", hours |-> 2725, season |-> 2],
      [kind |-> "eclipse", hours |-> 115, y |-> 0, starts |-> <<113>>,
       ends |-> <<117>>],
      [kind |-> "eclipse", hours |-> 820, y |-> 0, starts |-> <<819>>,
       ends |-> <<821>>] }

MaxPhenomena == 2

DetectSkies == {S \in SUBSET DetectUniverse : Cardinality(S) <= MaxPhenomena}

DetectWindows ==
    { [start_time |-> utc(2020, 6, 1, 0, 0, 0), end_time |-> utc(2020, 6, 2, 0, 0, 0)],
      [start_time |-> utc(2020, 6, 1, 0, 0, 0), end_time |-> utc(2020, 7, 21, 0, 0, 0)],
      [start_time |-> utc(2020, 6, 1, 0, 0, 0), end_time |-> utc(2020, 10, 20, 0, 0, 0)],
      [start_time |-> utc(2020, 6, 1, 0, 0, 0), end_time |-> utc(2021, 4, 1, 0, 0, 0)] }

InitDetect ==
    /\ provider \in {[kind |-> "sky", sky |-> S, fails |-> "none", error |-> None] :
                        S \in DetectSkies}
    /\ args \in {[start_time |-> w.start_time, end_time |-> w.end_time,
                  timezone |-> tz] : w \in DetectWindows, tz \in EventTimezones}
    /\ op = "none"
    /\ outcome = NoOutcome
    /\ ran = <<>>

\* _search_conjunctions_occultations(args.start_time, args.end_time, args.timezone)
SearchConjunctionsOccultations ==
    /\ op = "none"
    /\ op' = "search_conjunctions_occultations"
    /\ outcome' = search_conjunctions_occultations(1, args.start_time, args.end_time,
                                                   args.timezone)
    /\ UNCHANGED <<provider, args, ran>>

\* _search_oppositions(args.start_time, args.end_time, args.timezone)
SearchOppositions ==
    /\ op = "none"
    /\ op' = "search_oppositions"
    /\ outcome' = search_oppositions(1, args.start_time, args.end_time, args.timezone)
    /\ UNCHANGED <<provider, args, ran>>

\* _search_earth_season_change(args.start_time, args.end_time, args.timezone)
SearchEarthSeasonChange ==
    /\ op = "none"
    /\ op' = "search_earth_season_change"
    /\ outcome' = search_earth_season_change(1, args.start_time, args.end_time,
                                             args.timezone)
    /\ UNCHANGED <<provider, args, ran>>

\* _search_lunar_eclipse(args.start_time, args.end_time, args.timezone)
SearchLunarEclipse ==
    /\ op = "none"
    /\ op' = "search_lunar_eclipse"
    /\ outcome' = search_lunar_eclipse(1, args.start_time, args.end_time, args.timezone)
    /\ UNCHANGED <<provider, args, ran>>

NextDetect ==
    \/ SearchConjunctionsOccultations
    \/ SearchOppositions
    \/ SearchEarthSeasonChange
    \/ SearchLunarEclipse

SpecDetect == InitDetect /\ [][NextDetect]_vars

\* The phenomena of a kind in the window of the detector call.
InWindow(kind) == Found(kind, args.start_time, args.end_time)

\* The local time of an instant of the window of the detector call.
DetectLocalTime(hours) ==
    translate_to_timezone(TimeAt(args.start_time, hours), args.timezone)

\* The events the detector returned.
Detected == IF outcome.raised = "nothing" THEN outcome.events ELSE <<>>

\* The first longitude less the second, between -180 and 180 degrees.
Apart(lon) == ((lon[1] - lon[2] + 1800) % 3600) - 1800

\* The longitudes of the two bodies become equal across the phenomenon.
LongitudesMeet(x) ==
    /\ Apart(x.before) > 0 - 900 /\ Apart(x.before) < 900
    /\ \/ Apart(x.before) < 0 /\ Apart(x.after) >= 0
       \/ Apart(x.before) > 0 /\ Apart(x.after) <= 0

\* The events returned for the pair and the instant of a phenomenon.
PairEvents(x) ==
    {k \in DOMAIN Detected :
        /\ Detected[k].event_type \in {"CONJUNCTION", "OCCULTATION"}
        /\ Detected[k].start_time = DetectLocalTime(x.hours)
        /\ Range(Detected[k].objects) = {ASTERS[x.pair[1]], ASTERS[x.pair[2]]}}

\* C21: every CONJUNCTION or OCCULTATION event the pair detector returns is
\* at an instant where the longitudes of its two bodies are equal; a
\* crossing where the longitudes are half a turn apart produces no event,
\* in either direction.
C21_EventsOnlyWhereLongitudesMeet ==
    op = "search_conjunctions_occultations" =>
        \A k \in DOMAIN Detected :
            \E x \in InWindow("conjunction") : k \in PairEvents(x) /\ LongitudesMeet(x)

\* C22: every instant of the window at which the longitudes of a searched
\* pair become equal produces a CONJUNCTION or OCCULTATION event, whether
\* the first body of the pair passes the second or the second the first.
C22_EveryMeetingEmitted ==
    op = "search_conjunctions_occultations" =>
        \A x \in InWindow("conjunction") : LongitudesMeet(x) => PairEvents(x) # {}

\* The Sun's longitude less the body's, from 0 to 360 degrees.
Elongation(lon) == (lon[1] - lon[2]) % 3600

\* The body comes to 180 degrees from the Sun across the phenomenon.
InOpposition(x) ==
    /\ Elongation(x.before) > 900 /\ Elongation(x.before) < 2700
    /\ \/ Elongation(x.before) < 1800 /\ Elongation(x.after) >= 1800
       \/ Elongation(x.before) > 1800 /\ Elongation(x.after) <= 1800

\* The OPPOSITION events returned for the body and the instant of a
\* phenomenon.
OppositionEvents(x) ==
    {k \in DOMAIN Detected :
        /\ Detected[k].event_type = "OPPOSITION"
        /\ Detected[k].start_time = DetectLocalTime(x.hours)
        /\ Detected[k].objects = <<ASTERS[x.aster]>>}

OuterPlanets == {"MARS", "JUPITER", "SATURN", "URANUS", "NEPTUNE", "PLUTO"}

\* C23: every instant of the window at which an outer planet comes to 180
\* degrees from the Sun produces an OPPOSITION event, whether the Sun's
\* longitude less the planet's is then +180 or -180 degrees.
C23_EveryOppositionEmitted ==
    op = "search_oppositions" =>
        \A x \in InWindow("opposition") :
            (ASTERS[x.aster].identifier \in OuterPlanets /\ InOpposition(x))
                => OppositionEvents(x) # {}

\* One of the two longitudes passes from 360 to 0 degrees, or back, across
\* the phenomenon.
WrapsAround(x) ==
    \E i \in 1..2 : x.after[i] - x.before[i] > 1800 \/ x.before[i] - x.after[i] > 1800

\* The crossings find_discrete returns for the bodies _search_oppositions
\* does not skip.
OppositionCrossings ==
    {x \in InWindow("opposition") :
        /\ ASTERS[x.aster].type = "PLANET"
        /\ ASTERS[x.aster].identifier \notin {"MERCURY", "VENUS"}
        /\ is_oppositing(x.before) # is_oppositing(x.after)}

\* C24: an OPPOSITION is emitted for a crossing exactly when the whole
\* degrees of the Sun's longitude less the body's, at the crossing, are
\* 180; a crossing made by a longitude passing 0/360 is never emitted.
C24_EmittedWhenAngleIs180 ==
    op = "search_oppositions" =>
        \A x \in OppositionCrossings :
            /\ OppositionEvents(x) # {} <=> int(get_angle(x.after)) = 180
            /\ WrapsAround(x) => OppositionEvents(x) = {}

\* Mars in opposition is emitted and Saturn passing longitude 0, a crossing
\* of the same window, is not.
C24_Witness ==
    /\ op = "search_oppositions"
    /\ \E x \in OppositionCrossings, y \in OppositionCrossings :
          /\ ~WrapsAround(x) /\ OppositionEvents(x) # {}
          /\ WrapsAround(y) /\ is_oppositing(y.after) /\ OppositionEvents(y) = {}

\* C30: every OPPOSITION event has exactly one body, and it is Mars,
\* Jupiter, Saturn, Uranus, Neptune or Pluto.
C30_OppositionOfOuterPlanets ==
    op = "search_oppositions" =>
        \A k \in DOMAIN Detected :
            Detected[k].event_type = "OPPOSITION" =>
                /\ Len(Detected[k].objects) = 1
                /\ Detected[k].objects[1].identifier \in OuterPlanets

\* Mars is emitted in a window where the full Moon passes longitude 0 with
\* the Sun just past 180 degrees, which is emitted for no body.
C30_Witness ==
    /\ op = "search_oppositions"
    /\ \E x \in InWindow("opposition") :
          /\ ASTERS[x.aster].identifier = "MOON"
          /\ is_oppositing(x.after) /\ int(get_angle(x.after)) = 180
    /\ Len(Detected) = 1
    /\ Detected[1].objects = <<ASTERS[5]>>

\* C25: search_events returns only events whose type is among the types
\* asked for: a request for CONJUNCTION alone returns no OCCULTATION, and a
\* request for OCCULTATION alone no CONJUNCTION.
C25_OnlyRequestedTypes ==
    (op = "search_events" /\ Returned) =>
        \A k \in DOMAIN outcome.value :
            outcome.value[k].event_type \in Range(args.event_types)

\* The crossings into conjunction find_discrete returns in the window.
ConjunctionCrossings ==
    {x \in InWindow("conjunction") :
        ~is_in_conjunction(x.before) /\ is_in_conjunction(x.after)}

\* The apparent radius of the nearer and of the farther body of a crossing.
NearerRadius(x) == IF x.distance1 < x.distance2 THEN x.radius1 ELSE x.radius2

FartherRadius(x) == IF x.distance1 < x.distance2 THEN x.radius2 ELSE x.radius1

NearerFirst(x) ==
    IF x.distance1 < x.distance2 THEN <<ASTERS[x.pair[1]], ASTERS[x.pair[2]]>>
    ELSE <<ASTERS[x.pair[2]], ASTERS[x.pair[1]]>>

\* C26: the event of a crossing into conjunction is an OCCULTATION exactly
\* when the separation less the apparent radius of the farther body is
\* below the apparent radius of the nearer one, and a CONJUNCTION
\* otherwise; an OCCULTATION lists the nearer body first.
C26_OccultationWhenDiscsOverlap ==
    op = "search_conjunctions_occultations" =>
        \A x \in ConjunctionCrossings :
            /\ PairEvents(x) # {}
            /\ \A k \in PairEvents(x) :
                  IF x.separation - FartherRadius(x) < NearerRadius(x)
                  THEN /\ Detected[k].event_type = "OCCULTATION"
                       /\ Detected[k].objects = NearerFirst(x)
                  ELSE Detected[k].event_type = "CONJUNCTION"

\* The Moon grazes Jupiter: the centres are farther apart than the Moon's
\* radius, the discs overlap, and the event is an OCCULTATION with the Moon
\* first; in the same window the Moon passes Venus at three degrees.
C26_Witness ==
    /\ op = "search_conjunctions_occultations"
    /\ \E x \in ConjunctionCrossings, y \in ConjunctionCrossings :
          /\ x.separation >= NearerRadius(x)
          /\ \E k \in PairEvents(x) :
                /\ Detected[k].event_type = "OCCULTATION"
                /\ Detected[k].objects = <<ASTERS[2], ASTERS[6]>>
          /\ \E k \in PairEvents(y) : Detected[k].event_type = "CONJUNCTION"

\* The bodies of ASTERS other than the Sun.
NonSun == {a \in DOMAIN ASTERS : ASTERS[a].type # "STAR"}

\* C27: the pair detector searches every unordered pair of distinct bodies
\* other than the Sun exactly once: the Sun is in no pair, no body is
\* paired with itself, and no pair is searched in both orders.
C27_EachPairSearchedOnce ==
    op = "search_conjunctions_occultations" =>
        /\ \A n \in DOMAIN searched_pairs :
              /\ searched_pairs[n][1] \in NonSun /\ searched_pairs[n][2] \in NonSun
              /\ searched_pairs[n][1] # searched_pairs[n][2]
        /\ \A a \in NonSun, b \in NonSun :
              a # b => Cardinality({n \in DOMAIN searched_pairs :
                                      Range(searched_pairs[n]) = {a, b}}) = 1
        /\ \A x \in ConjunctionCrossings : Cardinality(PairEvents(x)) = 1

\* The detector ran over a window where two different pairs come into
\* conjunction, and returned one event for each.
C27_Witness ==
    /\ op = "search_conjunctions_occultations"
    /\ Len(Detected) = 2
    /\ \E x \in ConjunctionCrossings, y \in ConjunctionCrossings :
          x.pair # y.pair /\ PairEvents(x) # {} /\ PairEvents(y) # {}

\* C28: the season detector returns one SEASON_CHANGE event for each
\* equinox or solstice of the window, without bodies and with the season
\* as detail: k of them give k events, also when k is above one.
C28_OneEventPerSeasonChange ==
    op = "search_earth_season_change" =>
        /\ outcome.raised = "nothing"
        /\ Len(Detected) = Cardinality(InWindow("season"))
        /\ \A x \in InWindow("season") :
              \E k \in DOMAIN Detected :
                  /\ Detected[k].event_type = "SEASON_CHANGE"
                  /\ Detected[k].objects = <<>>
                  /\ Detected[k].start_time = DetectLocalTime(x.hours)
                  /\ Detected[k].details = Some([season |-> SeasonType[x.season + 1]])

\* C29: for each eclipse maximum of the window the eclipse detector returns
\* one LUNAR_ECLIPSE event that starts at the penumbra entry nearest before
\* the maximum and ends at the penumbra exit nearest after it, with
\* start <= maximum <= end, whatever the length of the window and the
\* number of eclipses in it.
C29_OneEventPerEclipse ==
    op = "search_lunar_eclipse" =>
        /\ outcome.raised = "nothing"
        /\ Len(Detected) = Cardinality(InWindow("eclipse"))
        /\ \A x \in InWindow("eclipse") :
              \E k \in DOMAIN Detected :
                  /\ Detected[k].event_type = "LUNAR_ECLIPSE"
                  /\ Detected[k].details =
                         Some([type |-> LunarEclipseType[x.y + 1],
                               maximum |-> DetectLocalTime(x.hours)])
                  /\ Detected[k].start_time = DetectLocalTime(x.starts[Len(x.starts)])
                  /\ Detected[k].end_time = Some(DetectLocalTime(x.ends[1]))
                  /\ x.starts[Len(x.starts)] <= x.hours /\ x.hours <= x.ends[1]

====
